---------------------------- MODULE Spec2Model ----------------------------
(***************************************************************************)
(* Review moderation pipeline of aws-terraform:                            *)
(*   PreprocessStage  src/code/lambdas/preprocess/preprocess.py            *)
(*   ProfanityStage   src/lambda/profanity/profanity.py                    *)
(*   SentimentStage   src/lambda/sentiment/sentiment.py                    *)
(* The stores (S3 buckets, DynamoDB tables) are functions from the keys    *)
(* present to their items; an item is a record whose DOMAIN is the set of  *)
(* attributes it carries, so that "'x' in item" is "x \in DOMAIN item".    *)
(* Every store operation (get_object, put_object, get_item, put_item,      *)
(* update_item) is one atomic step; handlers interleave between them.      *)
(***************************************************************************)
EXTENDS Integers, Sequences, FiniteSets, TLC

VARIABLES
    raw,        \* raw bucket: upload key -> raw review JSON
    blobs,      \* processed bucket: key -> processed_data JSON
    reviews,    \* reviews table: reviewId -> item
    customers,  \* customers table: userId -> item
    feed,       \* change feed of the reviews table: reviewId -> INSERT event
    threshold,  \* parameter /app/config/profanity_threshold
    clock,      \* wall clock
    ing,        \* the PreprocessStage invocation (its locals and response)
    pw,         \* ProfanityStage instances: worker -> locals
    sw,         \* SentimentStage instances: worker -> locals
    derived     \* history: the identifiers derived, with the review and the time

vars == <<raw, blobs, reviews, customers, feed, threshold, clock, ing, pw, sw, derived>>

-----------------------------------------------------------------------------
(* Bounds of the model *)

MaxThreshold == 2    \* thresholds 1..MaxThreshold are tried
MaxDeliveries == 2   \* deliveries of one INSERT event to one stage
MaxIngests == 2      \* ingest calls where the same key may be ingested again
HashSpace == 4       \* range of the truncated digest
MaxClock == 2        \* the clock runs from 1 to MaxClock
MaxBatch == 2        \* events in one batch

PWorkers == {"p1", "p2"}
SWorkers == {"s1"}

-----------------------------------------------------------------------------
(* Items and tables *)

NoItem == [a \in {} |-> TRUE]
EmptyTable == [k \in {} |-> NoItem]

\* dict.get(name, default)
Get(item, name, default) ==
    IF name \in DOMAIN item THEN item[name] ELSE default

\* Table.get_item: the item, or a response without 'Item'
GetItem(table, key) ==
    IF key \in DOMAIN table THEN table[key] ELSE NoItem

\* Table.put_item / s3.put_object: the item replaces whatever the key held
PutItem(table, key, item) ==
    [k \in DOMAIN table \cup {key} |-> IF k = key THEN item ELSE table[k]]

\* SET a = :a, b = :b applied to an item
SetAttrs(item, upd) ==
    [a \in DOMAIN item \cup DOMAIN upd |->
        IF a \in DOMAIN upd THEN upd[a] ELSE item[a]]

\* Table.update_item with a SET expression: an upsert on the key
UpdateItem(table, key, upd) ==
    PutItem(table, key, SetAttrs(GetItem(table, key), upd))

\* a record without some of its fields
Without(rec, names) ==
    [a \in DOMAIN rec \ names |-> rec[a]]

-----------------------------------------------------------------------------
(* External capabilities, as tables over a small vocabulary of texts *)

Texts == {"", " ", "great product", "bad product", "damn product"}

\* ProfanityFilter().is_profane
is_profane(text) ==
    text = "damn product"

\* preprocess_text: canonical form of a text
preprocess_text(text) ==
    CASE text \in {"", " "} -> ""
      [] text = "great product" -> "great product"
      [] text = "bad product" -> "bad product"
      [] OTHER -> "damn product"

\* len(text.split())
WordCount(text) ==
    IF text = "" THEN 0 ELSE 2

\* str.strip()
strip(text) ==
    IF text = " " THEN "" ELSE text

\* the lexicon's valence of a canonical text, in hundredths
Valence(text) ==
    CASE text = "great product" -> 62
      [] text = "bad product" -> -54
      [] text = "damn product" -> -40
      [] OTHER -> 0

\* SentimentIntensityAnalyzer().polarity_scores(text)['compound'], in hundredths
\* of [-1, 1], of the two parts of the combined text
compound(combined_text) ==
    LET v == Valence(combined_text[1]) + Valence(combined_text[2])
    IN  IF v > 100 THEN 100 ELSE IF v < -100 THEN -100 ELSE v

-----------------------------------------------------------------------------
(* PreprocessStage *)

RequiredFields == <<"reviewerID", "asin", "reviewText", "overall">>

\* the first required field the review lacks, or "" (preprocess.py 233-236)
MissingField(review) ==
    LET missing == {i \in 1..Len(RequiredFields) : RequiredFields[i] \notin DOMAIN review}
    IN  IF missing = {} THEN ""
        ELSE RequiredFields[CHOOSE i \in missing : \A j \in missing : i <= j]

\* hashlib.md5(hash_input).hexdigest()[:8]: a digest of the three parts
md5_8(asin, reviewerID, t) ==
    (t + (IF asin = "a1" THEN 0 ELSE 1) + (IF reviewerID = "u1" THEN 0 ELSE 2)) % HashSpace

generate_review_id(review, now) ==
    IF "reviewId" \in DOMAIN review
    THEN review.reviewId
    ELSE <<review.asin, review.reviewerID,
           md5_8(review.asin, review.reviewerID, Get(review, "unixReviewTime", now))>>

\* datetime.strptime(s, "%m %d, %Y"): the day, or -1 when it does not parse
strptime(s) ==
    IF s = "01 02, 2014" THEN 5 ELSE -1

\* an ISO timestamp string
isoformat(t) == <<"iso", t>>

parse_review_time(review, now) ==
    IF "unixReviewTime" \in DOMAIN review
    THEN isoformat(review.unixReviewTime)
    ELSE IF "reviewTime" \in DOMAIN review /\ strptime(review.reviewTime) >= 0
         THEN isoformat(strptime(review.reviewTime))
         ELSE isoformat(now)

\* float(x): the number a rating string stands for, or -1 when float raises
float(x) ==
    CASE x = "1" -> 1 [] x = "2" -> 2 [] x = "3" -> 3 [] x = "4" -> 4
      [] x = "5" -> 5 [] OTHER -> -1

RawLocation(key) == <<"s3", "raw", key>>
ProcessedKey(review, review_id) == <<"preprocessed", review.reviewerID, review_id>>
ProcessedLocation(processed_key) == <<"s3", "processed", processed_key>>

\* preprocess.py 246-262
ProcessedData(review, review_id, now) ==
    [reviewId |-> review_id,
     reviewerID |-> review.reviewerID,
     asin |-> review.asin,
     overall |-> review.overall,
     preprocessedReviewText |-> preprocess_text(Get(review, "reviewText", "")),
     preprocessedSummary |-> preprocess_text(Get(review, "summary", "")),
     originalReviewText |-> Get(review, "reviewText", ""),
     originalSummary |-> Get(review, "summary", ""),
     category |-> Get(review, "category", "uncategorized"),
     reviewerName |-> Get(review, "reviewerName", ""),
     timestamp |-> parse_review_time(review, now),
     helpful |-> Get(review, "helpful", <<0, 0>>)]

\* an item that is inserted as already checked and clean
DynamoItemChecked(key, review, review_id, processed_data, now) ==
    LET helpful == Get(review, "helpful", <<0, 0>>)
    IN  [userId |-> review.reviewerID,
         productId |-> review.asin,
         originalTextLocation |-> RawLocation(key),
         preprocessedLocation |-> ProcessedLocation(ProcessedKey(review, review_id)),
         overallRating |-> review.overall,
         timestamp |-> parse_review_time(review, now),
         wordCount |-> WordCount(processed_data.preprocessedReviewText),
         summaryWordCount |-> WordCount(processed_data.preprocessedSummary),
         helpfulVotes |-> IF Len(helpful) > 0 THEN helpful[1] ELSE 0,
         totalVotes |-> IF Len(helpful) > 1 THEN helpful[2] ELSE 0,
         reviewerName |-> Get(review, "reviewerName", ""),
         productCategory |-> Get(review, "category", "uncategorized"),
         processingStatus |-> "preprocessed",
         createdAt |-> isoformat(now),
         hasProfanity |-> "False",
         sentiment |-> "None",
         profanityCheckStatus |-> "completed",
         sentimentAnalysisStatus |-> "pending"]

\* preprocess.py 276-303 (the key reviewId is the table's key)
DynamoItem(key, review, review_id, processed_data, now) ==
    LET helpful == Get(review, "helpful", <<0, 0>>)
    IN  [userId |-> review.reviewerID,
         productId |-> review.asin,
         originalTextLocation |-> RawLocation(key),
         preprocessedLocation |-> ProcessedLocation(ProcessedKey(review, review_id)),
         overallRating |-> review.overall,
         timestamp |-> parse_review_time(review, now),
         wordCount |-> WordCount(processed_data.preprocessedReviewText),
         summaryWordCount |-> WordCount(processed_data.preprocessedSummary),
         helpfulVotes |-> IF Len(helpful) > 0 THEN helpful[1] ELSE 0,
         totalVotes |-> IF Len(helpful) > 1 THEN helpful[2] ELSE 0,
         reviewerName |-> Get(review, "reviewerName", ""),
         productCategory |-> Get(review, "category", "uncategorized"),
         processingStatus |-> "preprocessed",
         createdAt |-> isoformat(now),
         hasProfanity |-> "None",
         sentiment |-> "None",
         profanityCheckStatus |-> "pending",
         sentimentAnalysisStatus |-> "pending"]


NoId == <<"", "", 0>>

IngIdle ==
    [pc |-> "idle", key |-> "", review |-> NoItem, review_id |-> NoId,
     processed_data |-> NoItem, fault |-> "none",
     response |-> [statusCode |-> 0], blobWrites |-> 0, recWrites |-> 0, calls |-> 0]

\* a failure response that does not carry the exception's text
FailureGeneric(error) ==
    [statusCode |-> 500, error |-> <<"error", "">>,
     message |-> "Failed to preprocess review"]

\* the failure response of the handler's except clause (preprocess.py 318-326)
Failure(error) ==
    [statusCode |-> 500, error |-> error, message |-> "Failed to preprocess review"]

\* what lines 210-262 raise, or <<>> when they run through
BeginError(review, fault) ==
    CASE fault = "ssm" -> <<"SSM Error", "/app/config">>
      [] fault = "get_object" -> <<"get_object", "failed">>
      [] MissingField(review) # "" -> <<"Missing required field", MissingField(review)>>
      [] float(review.overall) < 0 -> <<"could not convert to float", review.overall>>
      [] fault = "nltk" /\ (preprocess_text(review.reviewText) # ""
                            \/ preprocess_text(Get(review, "summary", "")) # "")
           -> <<"nltk", "download failed">>
      [] OTHER -> <<>>

\* The object `review` is uploaded under `key` and the handler runs up to the
\* blob write: configuration, download, validation, identifier, canonicalization
\* (preprocess.py 210-262).
IngestBegin(key, review, fault) ==
    /\ ing.pc = "idle"
    /\ raw' = PutItem(raw, key, review)
    /\ LET err == BeginError(review, fault)
           review_id == generate_review_id(review, clock)
           started == [IngIdle EXCEPT !.key = key, !.review = review,
                                      !.fault = fault, !.calls = ing.calls + 1]
       IN  ing' = IF err # <<>>
                  THEN [started EXCEPT !.response = Failure(err)]
                  ELSE [started EXCEPT !.pc = "put_blob",
                                       !.review_id = review_id,
                                       !.processed_data = ProcessedData(review, review_id, clock)]
    /\ derived' = IF BeginError(review, fault) # <<>> THEN derived
                  ELSE derived \cup {[review |-> review, at |-> clock,
                                      review_id |-> generate_review_id(review, clock)]}
    /\ UNCHANGED <<blobs, reviews, customers, feed, threshold, clock, pw, sw>>

\* s3.put_object of the processed data (preprocess.py 264-272)
IngestPutBlob(fault) ==
    /\ ing.pc = "put_blob"
    /\ IF fault = "put_object"
       THEN /\ ing' = [ing EXCEPT !.pc = "idle", !.fault = fault,
                                  !.response = Failure(<<"put_object", "failed">>)]
            /\ UNCHANGED blobs
       ELSE /\ blobs' = PutItem(blobs, ProcessedKey(ing.review, ing.review_id),
                                ing.processed_data)
            /\ ing' = [ing EXCEPT !.pc = "put_record", !.blobWrites = @ + 1]
    /\ UNCHANGED <<raw, reviews, customers, feed, threshold, clock, pw, sw, derived>>

\* the change feed: a put_item on a key the table lacks emits an INSERT event
\* carrying the new image; on a key it has, a MODIFY event (which no stage acts on)
Emit(f, table, key, item) ==
    IF key \in DOMAIN table THEN f
    ELSE PutItem(f, key, [NewImage |-> item, pdeliv |-> 0, sdeliv |-> 0,
                          pdone |-> 0, sdone |-> 0])

\* a put_item whose failure is swallowed: the success response follows anyway
IngestPutRecordSwallow(fault) ==
    /\ ing.pc = "put_record"
    /\ IF fault = "put_item"
       THEN UNCHANGED <<reviews, feed>>
       ELSE LET item == DynamoItem(ing.key, ing.review, ing.review_id,
                                   ing.processed_data, clock)
            IN  /\ reviews' = PutItem(reviews, ing.review_id, item)
                /\ feed' = Emit(feed, reviews, ing.review_id, item)
    /\ ing' = [ing EXCEPT
                 !.pc = "idle", !.recWrites = IF fault = "put_item" THEN @ ELSE @ + 1,
                 !.response =
                     [statusCode |-> 200,
                      reviewId |-> ing.review_id,
                      preprocessedLocation |-> ProcessedKey(ing.review, ing.review_id),
                      message |-> "Review preprocessed successfully"]]
    /\ UNCHANGED <<raw, blobs, customers, threshold, clock, pw, sw, derived>>

\* a put_item that writes the record and raises afterwards
IngestPutRecordLate(fault) ==
    /\ ing.pc = "put_record"
    /\ LET item == DynamoItem(ing.key, ing.review, ing.review_id,
                              ing.processed_data, clock)
       IN  /\ reviews' = PutItem(reviews, ing.review_id, item)
           /\ feed' = Emit(feed, reviews, ing.review_id, item)
    /\ ing' = IF fault = "put_item"
              THEN [ing EXCEPT !.pc = "idle", !.fault = fault,
                               !.response = Failure(<<"put_item", "failed">>)]
              ELSE [ing EXCEPT
                      !.pc = "idle", !.recWrites = @ + 1,
                      !.response =
                          [statusCode |-> 200,
                           reviewId |-> ing.review_id,
                           preprocessedLocation |-> ProcessedKey(ing.review, ing.review_id),
                           message |-> "Review preprocessed successfully"]]
    /\ UNCHANGED <<raw, blobs, customers, threshold, clock, pw, sw, derived>>

\* reviews_table.put_item and the success response (preprocess.py 274-316)
IngestPutRecord(fault) ==
    /\ ing.pc = "put_record"
    /\ IF fault = "put_item"
       THEN /\ ing' = [ing EXCEPT !.pc = "idle", !.fault = fault,
                                  !.response = Failure(<<"put_item", "failed">>)]
            /\ UNCHANGED <<reviews, feed>>
       ELSE LET item == DynamoItem(ing.key, ing.review, ing.review_id,
                                   ing.processed_data, clock)
            IN  /\ reviews' = PutItem(reviews, ing.review_id, item)
                /\ feed' = Emit(feed, reviews, ing.review_id, item)
                /\ ing' = [ing EXCEPT
                             !.pc = "idle", !.recWrites = @ + 1,
                             !.response =
                                 [statusCode |-> 200,
                                  reviewId |-> ing.review_id,
                                  preprocessedLocation |-> ProcessedKey(ing.review, ing.review_id),
                                  message |-> "Review preprocessed successfully"]]
    /\ UNCHANGED <<raw, blobs, customers, threshold, clock, pw, sw, derived>>


-----------------------------------------------------------------------------
(* StreamDispatcher: at-least-once delivery of the feed, in batches *)

InsertEvent(review_id) == [eventName |-> "INSERT", reviewId |-> review_id]
OtherEvent(name, review_id) == [eventName |-> name, reviewId |-> review_id]

\* the INSERT events of a batch that are about review_id
Count(batch, review_id) ==
    Cardinality({i \in 1..Len(batch) : batch[i] = InsertEvent(review_id)})

\* the events the dispatcher may put in a batch now
Deliverable(counter) ==
    {InsertEvent(r) : r \in {x \in DOMAIN feed : feed[x][counter] < MaxDeliveries}}
    \cup {OtherEvent(n, r) : n \in {"MODIFY", "REMOVE"}, r \in DOMAIN feed}

Batches(counter, maxlen) ==
    {b \in UNION {[1..n -> Deliverable(counter)] : n \in 1..maxlen} :
        \A r \in DOMAIN feed : feed[r][counter] + Count(b, r) <= MaxDeliveries}

-----------------------------------------------------------------------------
(* ProfanityStage *)

PIdle ==
    [pc |-> "idle", batch |-> <<>>, i |-> 0, has_profanity |-> FALSE,
     item |-> NoItem, updated_customer |-> NoItem, current_time |-> 0,
     statusCode |-> 0]

\* the stored form of a Python bool
Bool(b) == IF b THEN "True" ELSE "False"

PEvent(w) == pw[w].batch[pw[w].i]
PImage(w) == feed[PEvent(w).reviewId].NewImage
PAtInsert(w) ==
    /\ pw[w].i <= Len(pw[w].batch)
    /\ PEvent(w).eventName = "INSERT"

\* `break` in place of `continue`: the rest of the batch is dropped
PBreak(l) ==
    [PIdle EXCEPT !.pc = "loop", !.batch = l.batch, !.i = Len(l.batch) + 1]

\* `continue`: on to the next record of the batch, the record's locals dropped
PContinue(l) ==
    [PIdle EXCEPT !.pc = "loop", !.batch = l.batch, !.i = l.i + 1]

\* the handler is invoked with a batch (profanity.py 47-48)
PDeliver(w, batch) ==
    /\ pw[w].pc = "idle"
    /\ pw' = [pw EXCEPT ![w] = [PIdle EXCEPT !.pc = "loop", !.batch = batch, !.i = 1]]
    /\ feed' = [r \in DOMAIN feed |->
                  [feed[r] EXCEPT !.pdeliv = @ + Count(batch, r)]]
    /\ UNCHANGED <<raw, blobs, reviews, customers, threshold, clock, ing, sw, derived>>

\* an event that is no INSERT handled as if it were one
PSkipActs(w) ==
    /\ pw[w].pc = "loop"
    /\ pw[w].i <= Len(pw[w].batch)
    /\ PEvent(w).eventName # "INSERT"
    /\ reviews' = UpdateItem(reviews, PEvent(w).reviewId,
                              [profanityCheckStatus |-> "completed",
                               hasProfanity |-> Bool(FALSE)])
    /\ pw' = [pw EXCEPT ![w] = PContinue(@)]
    /\ UNCHANGED <<raw, blobs, customers, feed, threshold, clock, ing, sw, derived>>

\* an event that is no INSERT is passed over (profanity.py 51-54)
PSkip(w) ==
    /\ pw[w].pc = "loop"
    /\ pw[w].i <= Len(pw[w].batch)
    /\ PEvent(w).eventName # "INSERT"
    /\ pw' = [pw EXCEPT ![w] = PContinue(@)]
    /\ UNCHANGED <<raw, blobs, reviews, customers, feed, threshold, clock, ing, sw, derived>>

\* the batch is exhausted (profanity.py 213)
PReturn(w) ==
    /\ pw[w].pc = "loop"
    /\ pw[w].i > Len(pw[w].batch)
    /\ pw' = [pw EXCEPT ![w] = [PIdle EXCEPT !.statusCode = 200]]
    /\ UNCHANGED <<raw, blobs, reviews, customers, feed, threshold, clock, ing, sw, derived>>

\* the text of a review: inline on the image, or fetched from the raw bucket
\* (profanity.py 64-74); NoItem when the object is not there
ReviewTexts(new_image) ==
    IF "originalReviewText" \notin DOMAIN new_image
    THEN LET key == new_image.originalTextLocation[3]
         IN  IF key \in DOMAIN raw
             THEN [review_text |-> Get(raw[key], "reviewText", ""),
                   summary_text |-> Get(raw[key], "summary", "")]
             ELSE NoItem
    ELSE [review_text |-> new_image.originalReviewText,
          summary_text |-> new_image.originalSummary]

\* profanity.py 78
HasProfanity(texts) ==
    is_profane(texts.review_text) \/ is_profane(texts.summary_text)

\* a SET that also puts the sentiment attributes back to their initial values
ReviewResultResets(has_profanity, now) ==
    [profanityCheckStatus |-> "completed",
     hasProfanity |-> Bool(has_profanity),
     lastUpdated |-> isoformat(now),
     sentiment |-> "None",
     sentimentAnalysisStatus |-> "pending"]

\* a SET that leaves the status as it is
ReviewResultNoStatus(has_profanity, now) ==
    [hasProfanity |-> Bool(has_profanity),
     lastUpdated |-> isoformat(now)]

\* the SET of profanity.py 82-94
ReviewResult(has_profanity, now) ==
    [profanityCheckStatus |-> "completed",
     hasProfanity |-> Bool(has_profanity),
     lastUpdated |-> isoformat(now)]

\* text fetch, classification and the review record's update (profanity.py 57-94)
PReview(w, fault) ==
    /\ pw[w].pc = "loop"
    /\ PAtInsert(w)
    /\ LET texts == ReviewTexts(PImage(w))
       IN  IF fault \in {"get_object", "update_item"} \/ texts = NoItem
           THEN /\ pw' = [pw EXCEPT ![w] = PContinue(@)]
                /\ UNCHANGED reviews
           ELSE /\ reviews' = UpdateItem(reviews, PEvent(w).reviewId,
                                         ReviewResult(HasProfanity(texts), clock))
                /\ pw' = [pw EXCEPT ![w].pc = "customer",
                                    ![w].has_profanity = HasProfanity(texts)]
    /\ UNCHANGED <<raw, blobs, customers, feed, threshold, clock, ing, sw, derived>>

\* the customers table's name, the time, and the customer's record as it is now
\* (profanity.py 98-104)
PGetCustomer(w, fault) ==
    /\ pw[w].pc = "customer"
    /\ IF fault \in {"ssm", "get_item"}
       THEN pw' = [pw EXCEPT ![w] = PContinue(@)]
       ELSE pw' = [pw EXCEPT ![w].pc = "write",
                             ![w].current_time = clock,
                             ![w].item = GetItem(customers, PImage(w).userId)]
    /\ UNCHANGED <<raw, blobs, reviews, customers, feed, threshold, clock, ing, sw, derived>>

\* a SET expression that stamps firstViolationDate at every violation
CustomerUpdateRestamps(item, has_profanity, now) ==
    LET base == [lastUpdated |-> isoformat(now),
                 lastReviewDate |-> isoformat(now),
                 totalReviews |-> Get(item, "totalReviews", 0) + 1]
        violation ==
            IF has_profanity
            THEN [violationCount |-> Get(item, "violationCount", 0) + 1,
                  lastViolationDate |-> isoformat(now),
                  firstViolationDate |-> isoformat(now)]
            ELSE NoItem
    IN  SetAttrs(base, violation)

\* the SET expression built for a customer that exists (profanity.py 108-150)
CustomerUpdate(item, has_profanity, now) ==
    LET base == [lastUpdated |-> isoformat(now),
                 lastReviewDate |-> isoformat(now),
                 totalReviews |-> Get(item, "totalReviews", 0) + 1]
        banned == IF "isBanned" \notin DOMAIN item
                  THEN [isBanned |-> FALSE] ELSE NoItem
        created == IF "createdDate" \notin DOMAIN item
                   THEN [createdDate |-> isoformat(now)] ELSE NoItem
        first == IF "firstReviewDate" \notin DOMAIN item
                 THEN [firstReviewDate |-> isoformat(now)] ELSE NoItem
        violation ==
            IF has_profanity
            THEN SetAttrs([violationCount |-> Get(item, "violationCount", 0) + 1,
                           lastViolationDate |-> isoformat(now)],
                          IF "firstViolationDate" \notin DOMAIN item
                          THEN [firstViolationDate |-> isoformat(now)] ELSE NoItem)
            ELSE IF "violationCount" \notin DOMAIN item
                 THEN [violationCount |-> 0] ELSE NoItem
    IN  SetAttrs(SetAttrs(SetAttrs(SetAttrs(base, banned), created), first), violation)

\* a new customer's item that starts without violations whatever the review
NewCustomerClean(has_profanity, now) ==
    [totalReviews |-> 1,
     violationCount |-> 0,
     isBanned |-> FALSE,
     createdDate |-> isoformat(now),
     lastUpdated |-> isoformat(now),
     lastReviewDate |-> isoformat(now),
     firstReviewDate |-> isoformat(now)]

\* the item put for a customer that does not exist (profanity.py 165-179);
\* the key userId is the table's key
NewCustomer(has_profanity, now) ==
    SetAttrs([totalReviews |-> 1,
              violationCount |-> IF has_profanity THEN 1 ELSE 0,
              isBanned |-> FALSE,
              createdDate |-> isoformat(now),
              lastUpdated |-> isoformat(now),
              lastReviewDate |-> isoformat(now),
              firstReviewDate |-> isoformat(now)],
             IF has_profanity
             THEN [firstViolationDate |-> isoformat(now),
                   lastViolationDate |-> isoformat(now)]
             ELSE NoItem)

\* the customers table after the write of profanity.py 106-184, decided on the
\* item read before
CustomerWrite(table, user_id, item, has_profanity, now) ==
    IF item # NoItem
    THEN UpdateItem(table, user_id, CustomerUpdate(item, has_profanity, now))
    ELSE PutItem(table, user_id, NewCustomer(has_profanity, now))

\* updated_customer taken from the item read before the write
UpdatedCustomerStale(table, user_id, item, has_profanity, now) ==
    IF item # NoItem THEN item ELSE NewCustomer(has_profanity, now)

\* updated_customer with the attributes the update set and no others
\* (ReturnValues UPDATED_NEW)
UpdatedCustomerSetOnly(table, user_id, item, has_profanity, now) ==
    IF item # NoItem
    THEN CustomerUpdate(item, has_profanity, now)
    ELSE NewCustomer(has_profanity, now)

\* updated_customer: ALL_NEW of the update, or the item put
UpdatedCustomer(table, user_id, item, has_profanity, now) ==
    IF item # NoItem
    THEN CustomerWrite(table, user_id, item, has_profanity, now)[user_id]
    ELSE NewCustomer(has_profanity, now)

\* profanity.py 192-193: whether the threshold is looked up at all
BanCandidate(updated_customer) ==
    /\ Get(updated_customer, "violationCount", 0) > 0
    /\ ~Get(updated_customer, "isBanned", FALSE)

\* a strict comparison in place of profanity.py 198
BanDueStrict(updated_customer, limit) ==
    Get(updated_customer, "violationCount", 0) > limit

\* profanity.py 198
BanDue(updated_customer, limit) ==
    Get(updated_customer, "violationCount", 0) >= limit

\* the record has gone through the try block without an exception
PCompleted(f, w) ==
    [f EXCEPT ![PEvent(w).reviewId].pdone = @ + 1]

\* the customer's record is updated or created (profanity.py 106-188); when the
\* ban logic has nothing to look up the record is finished (profanity.py 191-193)
PWriteCustomer(w, fault) ==
    /\ pw[w].pc = "write"
    /\ LET l == pw[w]
           user_id == PImage(w).userId
           updated == UpdatedCustomer(customers, user_id, l.item, l.has_profanity,
                                      l.current_time)
       IN  IF fault = "write"
           THEN /\ pw' = [pw EXCEPT ![w] = PContinue(@)]
                /\ UNCHANGED <<customers, feed>>
           ELSE /\ customers' = CustomerWrite(customers, user_id, l.item,
                                              l.has_profanity, l.current_time)
                /\ IF BanCandidate(updated)
                   THEN /\ pw' = [pw EXCEPT ![w].pc = "ban",
                                            ![w].item = NoItem,
                                            ![w].updated_customer = updated]
                        /\ UNCHANGED feed
                   ELSE /\ pw' = [pw EXCEPT ![w] = PContinue(@)]
                        /\ feed' = PCompleted(feed, w)
    /\ UNCHANGED <<raw, blobs, reviews, threshold, clock, ing, sw, derived>>

\* a ban that sets the flag and no date
BanUpdateNoDate(now) ==
    [isBanned |-> TRUE]

\* the SET of profanity.py 199-206
BanUpdate(now) ==
    [isBanned |-> TRUE, banDate |-> isoformat(now)]

\* the threshold is looked up and the customer banned when the count returned by
\* the write has reached it (profanity.py 194-207)
PBan(w, fault) ==
    /\ pw[w].pc = "ban"
    /\ IF fault = "ssm"
          \/ (fault = "update_item" /\ BanDue(pw[w].updated_customer, threshold))
       THEN /\ pw' = [pw EXCEPT ![w] = PContinue(@)]
            /\ UNCHANGED <<customers, feed>>
       ELSE /\ customers' =
                  IF BanDue(pw[w].updated_customer, threshold)
                  THEN UpdateItem(customers, PImage(w).userId,
                                  BanUpdate(pw[w].current_time))
                  ELSE customers
            /\ pw' = [pw EXCEPT ![w] = PContinue(@)]
            /\ feed' = PCompleted(feed, w)
    /\ UNCHANGED <<raw, blobs, reviews, threshold, clock, ing, sw, derived>>


-----------------------------------------------------------------------------
(* SentimentStage *)

SIdle ==
    [pc |-> "idle", batch |-> <<>>, i |-> 0, sentiment |-> "None",
     statusCode |-> 0, raised |-> FALSE]

SEvent(w) == sw[w].batch[sw[w].i]
SImage(w) == feed[SEvent(w).reviewId].NewImage

SContinue(l) ==
    [SIdle EXCEPT !.pc = "loop", !.batch = l.batch, !.i = l.i + 1]

\* an exception nothing catches ends the invocation
SRaise == [SIdle EXCEPT !.raised = TRUE]

\* the policy with a compound score of exactly 0.5 not yet positive
ClassifyStrict(c, overall) ==
    LET rating_sentiment == IF overall >= 4 THEN "positive"
                            ELSE IF overall <= 2 THEN "negative" ELSE "None"
    IN  IF c > 50 \/ (c > 0 /\ rating_sentiment = "positive") THEN "positive"
        ELSE IF c <= -50 \/ (c < 0 /\ rating_sentiment = "negative") THEN "negative"
        ELSE "neutral"

\* sentiment.py 106-121, the compound score in hundredths
Classify(c, overall) ==
    LET rating_sentiment == IF overall >= 4 THEN "positive"
                            ELSE IF overall <= 2 THEN "negative" ELSE "None"
    IN  IF c >= 50 \/ (c > 0 /\ rating_sentiment = "positive") THEN "positive"
        ELSE IF c <= -50 \/ (c < 0 /\ rating_sentiment = "negative") THEN "negative"
        ELSE "neutral"

\* sentiment.py 99-121
analyze_sentiment(summary, review_text, overall) ==
    Classify(compound(<<strip(summary), strip(review_text)>>), overall)

\* a rating that falls back to the lowest one
OverallLowest(new_image) ==
    LET overall_str == Get(new_image, "overallRating", "1")
    IN  IF float(overall_str) < 0 THEN 1 ELSE float(overall_str)

\* sentiment.py 169-173
Overall(new_image) ==
    LET overall_str == Get(new_image, "overallRating", "3")
    IN  IF float(overall_str) < 0 THEN 3 ELSE float(overall_str)

\* the reviews table's name is looked up and the batch taken (sentiment.py 142-146)
SDeliver(w, batch, fault) ==
    /\ sw[w].pc = "idle"
    /\ sw' = [sw EXCEPT ![w] = IF fault = "ssm" THEN SRaise
                               ELSE [SIdle EXCEPT !.pc = "loop", !.batch = batch, !.i = 1]]
    /\ feed' = [r \in DOMAIN feed |->
                  [feed[r] EXCEPT !.sdeliv = @ + Count(batch, r)]]
    /\ UNCHANGED <<raw, blobs, reviews, customers, threshold, clock, ing, pw, derived>>

\* sentiment.py 146-149
SSkip(w) ==
    /\ sw[w].pc = "loop"
    /\ sw[w].i <= Len(sw[w].batch)
    /\ SEvent(w).eventName # "INSERT"
    /\ sw' = [sw EXCEPT ![w] = SContinue(@)]
    /\ UNCHANGED <<raw, blobs, reviews, customers, feed, threshold, clock, ing, pw, derived>>

\* sentiment.py 192-195
SReturn(w) ==
    /\ sw[w].pc = "loop"
    /\ sw[w].i > Len(sw[w].batch)
    /\ sw' = [sw EXCEPT ![w] = [SIdle EXCEPT !.statusCode = 200]]
    /\ UNCHANGED <<raw, blobs, reviews, customers, feed, threshold, clock, ing, pw, derived>>

\* what `.+` matches of a string: `.` matches no line break, so the match ends
\* before the first one
FirstLine(s) ==
    CASE s = "u3\nx" -> "u3"
      [] OTHER -> s

\* re.match(r"s3://([^/]+)/(.+)", uri) on the reference the PreprocessStage wrote,
\* "s3://" bucket "/" "preprocessed/" reviewerID "/" review_id ".json": the bucket
\* and the key as far as `.+` goes; <<>> when there is no match (sentiment.py 69-72)
parse_s3_uri(uri) ==
    IF uri = <<>> THEN <<>>
    ELSE LET key == uri[3]
         IN  <<uri[2],
               IF FirstLine(key[2]) # key[2] THEN <<key[1], FirstLine(key[2])>>
               ELSE IF FirstLine(key[3][1]) # key[3][1]
                    THEN <<key[1], key[2], <<FirstLine(key[3][1])>>>>
                    ELSE key>>

\* the preprocessed blob is fetched and the label computed (sentiment.py 152-176);
\* a reference that does not parse or a blob that is not there raises
SFetch(w, fault) ==
    /\ sw[w].pc = "loop"
    /\ sw[w].i <= Len(sw[w].batch)
    /\ SEvent(w).eventName = "INSERT"
    /\ LET new_image == SImage(w)
           uri == Get(new_image, "preprocessedLocation", <<>>)
       IN  IF \/ fault = "get_object"
              \/ parse_s3_uri(uri) = <<>>
              \/ parse_s3_uri(uri)[2] \notin DOMAIN blobs
           THEN sw' = [sw EXCEPT ![w] = SRaise]
           ELSE LET data == blobs[parse_s3_uri(uri)[2]]
                IN  sw' = [sw EXCEPT
                             ![w].pc = "update",
                             ![w].sentiment =
                                 analyze_sentiment(Get(data, "preprocessedSummary", ""),
                                                   Get(data, "preprocessedReviewText", ""),
                                                   Overall(new_image))]
    /\ UNCHANGED <<raw, blobs, reviews, customers, feed, threshold, clock, ing, pw, derived>>

\* a SET that also puts the profanity attributes back to their initial values
SentimentResultResets(sentiment) ==
    [sentiment |-> sentiment, sentimentAnalysisStatus |-> "processed",
     hasProfanity |-> "None", profanityCheckStatus |-> "pending"]

\* the SET of sentiment.py 180-187
SentimentResult(sentiment) ==
    [sentiment |-> sentiment, sentimentAnalysisStatus |-> "processed"]

\* an update that also counts the analyses of the review
SUpdateCounting(w, fault) ==
    /\ sw[w].pc = "update"
    /\ IF fault = "update_item"
       THEN UNCHANGED <<reviews, feed>>
       ELSE LET id == SEvent(w).reviewId
            IN  /\ reviews' = UpdateItem(reviews, id,
                       [sentiment |-> sw[w].sentiment,
                        sentimentAnalysisStatus |-> "processed",
                        analysisCount |-> Get(GetItem(reviews, id), "analysisCount", 0) + 1])
                /\ feed' = [feed EXCEPT ![id].sdone = @ + 1]
    /\ sw' = [sw EXCEPT ![w] = SContinue(@)]
    /\ UNCHANGED <<raw, blobs, customers, threshold, clock, ing, pw, derived>>

\* sentiment.py 179-190: a failed update is logged and the loop goes on
SUpdate(w, fault) ==
    /\ sw[w].pc = "update"
    /\ IF fault = "update_item"
       THEN UNCHANGED <<reviews, feed>>
       ELSE /\ reviews' = UpdateItem(reviews, SEvent(w).reviewId,
                                     SentimentResult(sw[w].sentiment))
            /\ feed' = [feed EXCEPT ![SEvent(w).reviewId].sdone = @ + 1]
    /\ sw' = [sw EXCEPT ![w] = SContinue(@)]
    /\ UNCHANGED <<raw, blobs, customers, threshold, clock, ing, pw, derived>>


-----------------------------------------------------------------------------
(* The pipeline *)

Init ==
    /\ raw = EmptyTable
    /\ blobs = EmptyTable
    /\ reviews = EmptyTable
    /\ customers = EmptyTable
    /\ feed = EmptyTable
    /\ threshold \in 1..MaxThreshold
    /\ clock = 1
    /\ ing = IngIdle
    /\ pw = [w \in PWorkers |-> PIdle]
    /\ sw = [w \in SWorkers |-> SIdle]
    /\ derived = {}

\* time passes
Tick ==
    /\ clock < MaxClock
    /\ clock' = clock + 1
    /\ UNCHANGED <<raw, blobs, reviews, customers, feed, threshold, ing, pw, sw, derived>>

\* a raw review with the fields the tests upload
Review(reviewerID, asin, reviewText, summary, overall, unixReviewTime) ==
    [reviewerID |-> reviewerID, asin |-> asin, reviewText |-> reviewText,
     summary |-> summary, overall |-> overall, unixReviewTime |-> unixReviewTime]

\* reviews of one user: three that are flagged (by the text or by the summary)
\* and one that is not
UserReviews ==
    {Review("u1", "a1", "damn product", "bad product", "1", 10),
     Review("u1", "a2", "bad product", "damn product", "2", 11),
     Review("u1", "a3", "damn product", "", "1", 12),
     Review("u1", "a4", "great product", "great product", "5", 13)}

PIdleAll == \A w \in PWorkers : pw[w].pc = "idle"
SIdleAll == \A w \in SWorkers : sw[w].pc = "idle"
Quiet == ing.pc = "idle" /\ PIdleAll /\ SIdleAll

\* the instances are interchangeable: a batch goes to the first idle one
FirstIdle(w) ==
    \A v \in PWorkers : (v = "p1" /\ w = "p2") => pw[v].pc # "idle"

OnlyInserts(batch) == \A i \in 1..Len(batch) : batch[i].eventName = "INSERT"

\* no event of the batch has been delivered to the ProfanityStage before
Fresh(batch) ==
    \A i \in 1..Len(batch) : feed[batch[i].reviewId].pdeliv = 0

\* no event of the batch has been delivered to the SentimentStage before
SFresh(batch) ==
    \A i \in 1..Len(batch) : feed[batch[i].reviewId].sdeliv = 0

(* One thing at a time: each review is ingested once and its notification
   delivered once, the ProfanityStage handles one notification after the other,
   time passes between them, nothing fails. *)
NextSeq ==
    \/ \E r \in UserReviews :
          Quiet /\ r.asin \notin DOMAIN raw /\ IngestBegin(r.asin, r, "none")
    \/ Quiet /\ Tick
    \/ IngestPutBlob("none")
    \/ IngestPutRecord("none")
    \/ \E b \in Batches("pdeliv", 1) :
          Quiet /\ OnlyInserts(b) /\ Fresh(b) /\ PDeliver("p1", b)
    \/ PReview("p1", "none")
    \/ PGetCustomer("p1", "none")
    \/ PWriteCustomer("p1", "none")
    \/ PBan("p1", "none")
    \/ PReturn("p1")

SpecSeq == Init /\ [][NextSeq]_vars

\* two flagged reviews
ConcReviews == {r \in UserReviews : r.asin \in {"a1", "a2"}}

(* As NextSeq, with notifications redelivered. *)
NextRedeliver ==
    \/ \E r \in ConcReviews :
          Quiet /\ r.asin \notin DOMAIN raw /\ IngestBegin(r.asin, r, "none")
    \/ Quiet /\ Tick
    \/ IngestPutBlob("none")
    \/ IngestPutRecord("none")
    \/ \E b \in Batches("pdeliv", 1) :
          Quiet /\ OnlyInserts(b) /\ PDeliver("p1", b)
    \/ PReview("p1", "none")
    \/ PGetCustomer("p1", "none")
    \/ PWriteCustomer("p1", "none")
    \/ PBan("p1", "none")
    \/ PReturn("p1")

SpecRedeliver == Init /\ [][NextRedeliver]_vars

(* ProfanityStage instances run concurrently, nothing fails. An ingest call shares
   no item with the handling of another review, so it runs while no handler does. *)
NextConc ==
    \/ \E r \in ConcReviews :
          Quiet /\ r.asin \notin DOMAIN raw /\ IngestBegin(r.asin, r, "none")
    \/ Tick
    \/ IngestPutBlob("none")
    \/ IngestPutRecord("none")
    \/ \E w \in PWorkers :
          \/ \E b \in Batches("pdeliv", 1) :
                ing.pc = "idle" /\ OnlyInserts(b) /\ FirstIdle(w) /\ PDeliver(w, b)
          \/ PReview(w, "none")
          \/ PGetCustomer(w, "none")
          \/ PWriteCustomer(w, "none")
          \/ PBan(w, "none")
          \/ PReturn(w)

SpecConc == Init /\ [][NextConc]_vars

(* The PreprocessStage alone, with every kind of raw review and every failure. *)

FullReview == Review("u1", "a1", "great product", "great product", "5", 10)
Undated == Without(FullReview, {"unixReviewTime"})

IngestReviews ==
    {FullReview,
     Undated,
     SetAttrs(Undated, [reviewTime |-> "01 02, 2014"]),
     SetAttrs(Undated, [reviewTime |-> "yesterday"]),
     SetAttrs(FullReview, [reviewId |-> <<"ext", "ext", 0>>]),
     SetAttrs(FullReview, [overall |-> "five"]),
     SetAttrs(Without(FullReview, {"summary"}), [reviewText |-> " "]),
     SetAttrs(FullReview, [helpful |-> <<3>>, category |-> "books",
                           reviewerName |-> "Ann"]),
     Review("u2", "a2", "damn product", "", "1", 11)}
    \cup {Without(FullReview, missing) :
            missing \in SUBSET {"reviewerID", "asin", "reviewText", "overall"} \ {{}}}

Keys == {"k1"}
BeginFaults == {"none", "ssm", "get_object", "nltk"}

NextIngest ==
    \/ \E key \in Keys, review \in IngestReviews, fault \in BeginFaults :
          ing.calls < MaxIngests /\ IngestBegin(key, review, fault)
    \/ Tick
    \/ \E fault \in {"none", "put_object"} : IngestPutBlob(fault)
    \/ \E fault \in {"none", "put_item"} : IngestPutRecord(fault)

SpecIngest == Init /\ [][NextIngest]_vars

(* The whole pipeline: reviews are ingested, possibly again, and both stream
   stages handle the notifications, possibly redelivered, in batches. *)

PipeReviews == {r \in UserReviews : r.asin \in {"a1", "a4"}}

NextPipe ==
    \/ \E r \in PipeReviews :
          ing.calls < MaxIngests /\ IngestBegin(r.asin, r, "none")
    \/ Tick
    \/ IngestPutBlob("none")
    \/ IngestPutRecord("none")
    \/ \E b \in Batches("pdeliv", 1) : OnlyInserts(b) /\ PDeliver("p1", b)
    \/ PReview("p1", "none")
    \/ PGetCustomer("p1", "none")
    \/ PWriteCustomer("p1", "none")
    \/ PBan("p1", "none")
    \/ PReturn("p1")
    \/ \E b \in Batches("sdeliv", 1) : OnlyInserts(b) /\ SDeliver("s1", b, "none")
    \/ SFetch("s1", "none")
    \/ SUpdate("s1", "none")
    \/ SReturn("s1")

Spec == Init /\ [][NextPipe]_vars

(* Each review is ingested once; both stream stages handle the notifications,
   possibly redelivered, their steps interleaved; nothing fails. *)
NextStages ==
    \/ \E r \in PipeReviews :
          ing.pc = "idle" /\ r.asin \notin DOMAIN raw /\ IngestBegin(r.asin, r, "none")
    \/ Tick
    \/ IngestPutBlob("none")
    \/ IngestPutRecord("none")
    \/ \E b \in Batches("pdeliv", 1) : OnlyInserts(b) /\ PDeliver("p1", b)
    \/ PReview("p1", "none")
    \/ PGetCustomer("p1", "none")
    \/ PWriteCustomer("p1", "none")
    \/ PBan("p1", "none")
    \/ PReturn("p1")
    \/ \E b \in Batches("sdeliv", 1) : OnlyInserts(b) /\ SDeliver("s1", b, "none")
    \/ SFetch("s1", "none")
    \/ SUpdate("s1", "none")
    \/ SReturn("s1")

SpecStages == Init /\ [][NextStages]_vars

\* the steps of the two handlers once they have a batch
PSteps ==
    \/ PReview("p1", "none") \/ PGetCustomer("p1", "none")
    \/ PWriteCustomer("p1", "none") \/ PBan("p1", "none") \/ PReturn("p1")
SSteps ==
    SFetch("s1", "none") \/ SUpdate("s1", "none") \/ SReturn("s1")

(* Each review is ingested once and its INSERT event delivered once to each
   stage, the stages' steps interleaved. The ingest call runs to its end, an
   INSERT event not yet delivered to a stage is delivered to it, and a handler
   that has a batch runs to its end. *)
NextLive ==
    \/ \E r \in PipeReviews :
          ing.pc = "idle" /\ r.asin \notin DOMAIN raw /\ IngestBegin(r.asin, r, "none")
    \/ IngestPutBlob("none")
    \/ IngestPutRecord("none")
    \/ \E b \in Batches("pdeliv", 1) : OnlyInserts(b) /\ Fresh(b) /\ PDeliver("p1", b)
    \/ PSteps
    \/ \E b \in Batches("sdeliv", 1) :
          OnlyInserts(b) /\ SFresh(b) /\ SDeliver("s1", b, "none")
    \/ SSteps

SpecLive ==
    /\ Init /\ [][NextLive]_vars
    /\ WF_vars(IngestPutBlob("none")) /\ WF_vars(IngestPutRecord("none"))
    /\ WF_vars(\E b \in Batches("pdeliv", 1) :
                  OnlyInserts(b) /\ Fresh(b) /\ PDeliver("p1", b))
    /\ WF_vars(\E b \in Batches("sdeliv", 1) :
                  OnlyInserts(b) /\ SFresh(b) /\ SDeliver("s1", b, "none"))
    /\ WF_vars(PSteps) /\ WF_vars(SSteps)

(* Batches of up to MaxBatch events of every kind, one invocation at a time,
   nothing failing. An INSERT event can be in a batch more than once; a batch
   holds no event delivered in an earlier one. *)
NextBatch ==
    \/ \E r \in PipeReviews :
          Quiet /\ r.asin \notin DOMAIN raw /\ IngestBegin(r.asin, r, "none")
    \/ Quiet /\ Tick
    \/ IngestPutBlob("none")
    \/ IngestPutRecord("none")
    \/ \E b \in Batches("pdeliv", MaxBatch) : Quiet /\ Fresh(b) /\ PDeliver("p1", b)
    \/ PSkip("p1")
    \/ PReview("p1", "none")
    \/ PGetCustomer("p1", "none")
    \/ PWriteCustomer("p1", "none")
    \/ PBan("p1", "none")
    \/ PReturn("p1")
    \/ \E b \in Batches("sdeliv", MaxBatch) :
          Quiet /\ SFresh(b) /\ SDeliver("s1", b, "none")
    \/ SSkip("s1")
    \/ SFetch("s1", "none")
    \/ SUpdate("s1", "none")
    \/ SReturn("s1")

SpecBatch == Init /\ [][NextBatch]_vars

(* The ProfanityStage alone on such batches, with a failure possible at every
   call the handler makes. *)
PFaults == {"none", "get_object", "update_item", "ssm", "get_item", "write"}

NextProfanityBatch ==
    \/ \E r \in PipeReviews :
          Quiet /\ r.asin \notin DOMAIN raw /\ IngestBegin(r.asin, r, "none")
    \/ Quiet /\ Tick
    \/ IngestPutBlob("none")
    \/ IngestPutRecord("none")
    \/ \E b \in Batches("pdeliv", MaxBatch) : Quiet /\ Fresh(b) /\ PDeliver("p1", b)
    \/ PSkip("p1")
    \/ \E fault \in PFaults : PReview("p1", fault)
    \/ \E fault \in PFaults : PGetCustomer("p1", fault)
    \/ \E fault \in PFaults : PWriteCustomer("p1", fault)
    \/ \E fault \in PFaults : PBan("p1", fault)
    \/ PReturn("p1")

SpecProfanityBatch == Init /\ [][NextProfanityBatch]_vars

(* The SentimentStage alone on such batches, with a failure possible at every
   call the handler makes. *)
SFaults == {"none", "ssm", "get_object", "update_item"}

NextSentimentBatch ==
    \/ \E r \in PipeReviews :
          Quiet /\ r.asin \notin DOMAIN raw /\ IngestBegin(r.asin, r, "none")
    \/ Quiet /\ Tick
    \/ IngestPutBlob("none")
    \/ IngestPutRecord("none")
    \/ \E b \in Batches("sdeliv", MaxBatch), fault \in SFaults :
          Quiet /\ SFresh(b) /\ SDeliver("s1", b, fault)
    \/ SSkip("s1")
    \/ \E fault \in SFaults : SFetch("s1", fault)
    \/ \E fault \in SFaults : SUpdate("s1", fault)
    \/ SReturn("s1")

SpecSentimentBatch == Init /\ [][NextSentimentBatch]_vars

(* The sentiment policy alone: a SentimentStage instance holds a compound score
   (in hundredths) and a rating, and classifies them. *)
Compounds == -100..100
Ratings == 0..6

InitPolicy ==
    /\ raw = EmptyTable /\ blobs = EmptyTable /\ reviews = EmptyTable
    /\ customers = EmptyTable /\ feed = EmptyTable
    /\ threshold = 1 /\ clock = 1 /\ ing = IngIdle
    /\ pw = [w \in PWorkers |-> PIdle]
    /\ sw \in [SWorkers -> [pc : {"score"}, compound : Compounds, overall : Ratings,
                            sentiment : {"None"}]]
    /\ derived = {}

Analyze(w) ==
    /\ sw[w].pc = "score"
    /\ sw' = [sw EXCEPT ![w].pc = "scored",
                        ![w].sentiment = Classify(sw[w].compound, sw[w].overall)]
    /\ UNCHANGED <<raw, blobs, reviews, customers, feed, threshold, clock, ing, pw, derived>>

NextPolicy == \E w \in SWorkers : Analyze(w)

SpecPolicy == InitPolicy /\ [][NextPolicy]_vars

(* The SentimentStage on records whose rating is missing or is no number: the
   records are inserted in the reviews table as they are, with their blob. *)
RatingIds == {<<"x1", "u1", 0>>, <<"x2", "u1", 0>>}
RatingValues == {"absent", "five", "1", "4"}
RatingTexts == {<<"", "damn product">>, <<"great product", "damn product">>,
                <<"great product", "">>}

\* a review record with a rating attribute only when there is a rating
RatedItem(id, rating) ==
    SetAttrs([userId |-> id[2], productId |-> id[1],
              preprocessedLocation |-> ProcessedLocation(<<"preprocessed", id[2], id>>),
              hasProfanity |-> "None", sentiment |-> "None",
              profanityCheckStatus |-> "pending",
              sentimentAnalysisStatus |-> "pending"],
             IF rating = "absent" THEN NoItem ELSE [overallRating |-> rating])

InsertRecord(id, rating, texts) ==
    /\ id \notin DOMAIN reviews
    /\ blobs' = PutItem(blobs, <<"preprocessed", id[2], id>>,
                        [reviewId |-> id, preprocessedSummary |-> texts[1],
                         preprocessedReviewText |-> texts[2]])
    /\ reviews' = PutItem(reviews, id, RatedItem(id, rating))
    /\ feed' = Emit(feed, reviews, id, RatedItem(id, rating))
    /\ UNCHANGED <<raw, customers, threshold, clock, ing, pw, sw, derived>>

NextRating ==
    \/ \E id \in RatingIds, rating \in RatingValues, texts \in RatingTexts :
          SIdleAll /\ InsertRecord(id, rating, texts)
    \/ \E b \in Batches("sdeliv", 1) : OnlyInserts(b) /\ SDeliver("s1", b, "none")
    \/ SSteps

SpecRating == Init /\ [][NextRating]_vars

(* The ProfanityStage without its configuration: the parameter
   /app/config/customers_table cannot be read. *)
NextNoConfig ==
    \/ \E r \in PipeReviews :
          Quiet /\ r.asin \notin DOMAIN raw /\ IngestBegin(r.asin, r, "none")
    \/ Tick
    \/ IngestPutBlob("none")
    \/ IngestPutRecord("none")
    \/ \E b \in Batches("pdeliv", MaxBatch) :
          ing.pc = "idle" /\ OnlyInserts(b) /\ PDeliver("p1", b)
    \/ PReview("p1", "none")
    \/ PGetCustomer("p1", "ssm")
    \/ PReturn("p1")

SpecNoConfig == Init /\ [][NextNoConfig]_vars

(* The language data of a PreprocessStage container: preprocess_text calls
   load_nltk_data, which downloads four packages unless the flag
   nltk_data_loaded is set, and then tokenizes. nltk.download either installs
   the package and returns True, or installs nothing and returns False, or
   raises. The container's state is held in `ing`. *)
Packages == <<"punkt_tab", "punkt", "stopwords", "wordnet">>
DownloadOutcomes == {"True", "False", "raise"}

NltkIdle ==
    [pc |-> "idle", nltk_data_loaded |-> FALSE, installed |-> {}, next |-> 1,
     result |-> "none", calls |-> 0]

InitNltk ==
    /\ raw = EmptyTable /\ blobs = EmptyTable /\ reviews = EmptyTable
    /\ customers = EmptyTable /\ feed = EmptyTable
    /\ threshold \in 1..MaxThreshold /\ clock = 1
    /\ ing = NltkIdle
    /\ pw = [w \in PWorkers |-> PIdle]
    /\ sw = [w \in SWorkers |-> SIdle]
    /\ derived = {}

\* preprocess_text is called on a text that is not blank (preprocess.py 91-95, 62)
load_nltk_data ==
    /\ ing.pc = "idle" /\ ing.calls < MaxIngests
    /\ ing' = [ing EXCEPT !.pc = IF ing.nltk_data_loaded THEN "tokenize" ELSE "download",
                          !.next = 1, !.result = "none", !.calls = @ + 1]
    /\ UNCHANGED <<raw, blobs, reviews, customers, feed, threshold, clock, pw, sw, derived>>

\* one nltk.download (preprocess.py 63-66)
Download(outcome) ==
    /\ ing.pc = "download"
    /\ ing' = IF outcome = "raise"
              THEN [ing EXCEPT !.pc = "idle", !.result = "download raised"]
              ELSE [ing EXCEPT
                      !.installed = IF outcome = "True"
                                    THEN @ \cup {Packages[ing.next]} ELSE @,
                      !.next = @ + 1,
                      !.pc = IF ing.next = Len(Packages) THEN "set" ELSE "download"]
    /\ UNCHANGED <<raw, blobs, reviews, customers, feed, threshold, clock, pw, sw, derived>>

\* nltk_data_loaded = True (preprocess.py 67)
SetLoaded ==
    /\ ing.pc = "set"
    /\ ing' = [ing EXCEPT !.pc = "tokenize", !.nltk_data_loaded = TRUE]
    /\ UNCHANGED <<raw, blobs, reviews, customers, feed, threshold, clock, pw, sw, derived>>

\* word_tokenize, stopwords and the lemmatizer need their data (preprocess.py 99-114)
Tokenize ==
    /\ ing.pc = "tokenize"
    /\ ing' = [ing EXCEPT !.pc = "idle",
                          !.result = IF ing.installed = {Packages[i] : i \in 1..Len(Packages)}
                                     THEN "ok" ELSE "LookupError"]
    /\ UNCHANGED <<raw, blobs, reviews, customers, feed, threshold, clock, pw, sw, derived>>

NextNltk ==
    \/ load_nltk_data
    \/ \E outcome \in DownloadOutcomes : Download(outcome)
    \/ SetLoaded
    \/ Tokenize

SpecNltk == InitNltk /\ [][NextNltk]_vars

(* Concurrent ProfanityStage instances on the flagged and unflagged reviews of
   one user, each INSERT event delivered once, nothing failing. *)
NextMixed ==
    \/ \E r \in UserReviews :
          Quiet /\ r.asin \notin DOMAIN raw /\ IngestBegin(r.asin, r, "none")
    \/ IngestPutBlob("none")
    \/ IngestPutRecord("none")
    \/ \E w \in PWorkers :
          \/ \E b \in Batches("pdeliv", 1) :
                /\ ing.pc = "idle" /\ OnlyInserts(b) /\ Fresh(b) /\ FirstIdle(w)
                /\ PDeliver(w, b)
          \/ PReview(w, "none")
          \/ PGetCustomer(w, "none")
          \/ PWriteCustomer(w, "none")
          \/ PBan(w, "none")
          \/ PReturn(w)

SpecMixed == Init /\ [][NextMixed]_vars

(* Ingest, with the blob write and the record insert failing or not, of reviews
   whose reviewerID is one line and of a review whose reviewerID holds a line
   break, possibly again; the SentimentStage handles the notifications, each
   delivered once, and nothing fails on its side. *)
BlobReviews ==
    {Review("u1", "a1", "great product", "great product", "5", 10),
     Review("u3\nx", "a2", "great product", "great product", "5", 11)}

NextBlob ==
    \/ \E r \in BlobReviews :
          ing.calls < MaxIngests /\ SIdleAll /\ IngestBegin(r.asin, r, "none")
    \/ \E fault \in {"none", "put_object"} : IngestPutBlob(fault)
    \/ \E fault \in {"none", "put_item"} : IngestPutRecord(fault)
    \/ \E b \in Batches("sdeliv", 1) :
          OnlyInserts(b) /\ SFresh(b) /\ SDeliver("s1", b, "none")
    \/ SFetch("s1", "none")
    \/ SUpdate("s1", "none")
    \/ SReturn("s1")

SpecBlob == Init /\ [][NextBlob]_vars

(* One ProfanityStage instance handles the notifications of one user's flagged
   and unflagged reviews one after the other, each delivered once; the threshold
   lookup and the ban write can fail. *)
CatchUpReviews == {r \in UserReviews : r.asin \in {"a1", "a2", "a4"}}
BanFaults == {"none", "ssm", "update_item"}

NextCatchUp ==
    \/ \E r \in CatchUpReviews :
          Quiet /\ r.asin \notin DOMAIN raw /\ IngestBegin(r.asin, r, "none")
    \/ IngestPutBlob("none")
    \/ IngestPutRecord("none")
    \/ \E b \in Batches("pdeliv", 1) :
          Quiet /\ OnlyInserts(b) /\ Fresh(b) /\ PDeliver("p1", b)
    \/ PReview("p1", "none")
    \/ PGetCustomer("p1", "none")
    \/ PWriteCustomer("p1", "none")
    \/ \E fault \in BanFaults : PBan("p1", fault)
    \/ PReturn("p1")

SpecCatchUp == Init /\ [][NextCatchUp]_vars

-----------------------------------------------------------------------------
(* What the claims speak of *)

Users == {"u1", "u2"}

Customer(u) == GetItem(customers, u)
ViolationCount(u) == Get(Customer(u), "violationCount", 0)
IsBanned(u) == Get(Customer(u), "isBanned", FALSE)
HasBanDate(u) == "banDate" \in DOMAIN Customer(u)

\* the review's text or summary is profane
Flagged(r) == HasProfanity(ReviewTexts(feed[r].NewImage))

\* the flagged reviews of u that the ProfanityStage has handled to the end
FlaggedDone(u) ==
    {r \in DOMAIN feed : /\ feed[r].NewImage.userId = u
                         /\ feed[r].pdone >= 1
                         /\ Flagged(r)}

DeliveredOnce == \A r \in DOMAIN feed : feed[r].pdeliv <= 1

-----------------------------------------------------------------------------
(* The customer aggregate *)

\* C1: with notifications handled one after the other and nothing failing, however
\* often the notification of a flagged review is redelivered, the customer's
\* violationCount is the number of distinct flagged reviews handled.
C1_NoDoubleCount ==
    \A u \in Users :
        PIdleAll => ViolationCount(u) = Cardinality(FlaggedDone(u))

\* C2: when concurrent instances have handled the notifications of different
\* flagged reviews of one user, each delivered once, violationCount is the number
\* of those reviews.
C2_NoLostIncrement ==
    \A u \in Users :
        (PIdleAll /\ DeliveredOnce) => ViolationCount(u) = Cardinality(FlaggedDone(u))

\* C3: once a customer is banned, no step leaves the customer not banned.
C3_BanMonotonic ==
    [][\A u \in Users : IsBanned(u) => IsBanned(u)']_vars

\* C4: once banDate is written it is never written again with another value and
\* never removed.
C4_BanDateOnce ==
    [][\A u \in Users :
          HasBanDate(u) => /\ HasBanDate(u)'
                           /\ Customer(u)'.banDate = Customer(u).banDate]_vars

C6_BanReached ==
    PIdleAll =>
        \A u \in Users :
            Cardinality(FlaggedDone(u)) >= threshold => IsBanned(u) /\ HasBanDate(u)

-----------------------------------------------------------------------------
(* The review record and the PreprocessStage *)

ProfanityCompleted(r) ==
    Get(GetItem(reviews, r), "profanityCheckStatus", "pending") = "completed"
SentimentProcessed(r) ==
    Get(GetItem(reviews, r), "sentimentAnalysisStatus", "pending") = "processed"

\* C7: a review record's profanityCheckStatus never goes back from completed to
\* pending and its sentimentAnalysisStatus never from processed to pending,
\* whatever is ingested (again) or delivered.
C7_StatusNeverRegresses ==
    [][\A r \in DOMAIN reviews :
          /\ ProfanityCompleted(r) => ProfanityCompleted(r)'
          /\ SentimentProcessed(r) => SentimentProcessed(r)']_vars

\* the ingest call has returned
IngReturned == ing.pc = "idle" /\ ing.calls > 0

\* the call failed before the raw review was read
FailedBeforeValidation == ing.fault \in {"ssm", "get_object"}

\* C8: an ingest call on a raw review that lacks a required field returns a
\* failure response and has written neither a blob nor a record; the error names
\* the (first) missing field whenever the raw review could be read at all.
C8_ValidationWritesNothing ==
    (IngReturned /\ MissingField(ing.review) # "") =>
        /\ ing.response.statusCode = 500
        /\ ing.blobWrites = 0 /\ ing.recWrites = 0
        /\ ~FailedBeforeValidation =>
              ing.response.error = <<"Missing required field", MissingField(ing.review)>>

\* C8 witness: a raw review without `overall` was rejected after another review
\* had been ingested
C8_Witness ==
    /\ IngReturned /\ ing.fault = "none"
    /\ MissingField(ing.review) = "overall"
    /\ ing.response.statusCode = 500
    /\ reviews # EmptyTable

\* C9: a success response is returned only by a call that has written exactly one
\* blob and one review record, which are in the stores under the keys returned.
C9_SuccessMeansOneWriteEach ==
    ing.response.statusCode = 200 =>
        /\ ing.blobWrites = 1 /\ ing.recWrites = 1
        /\ ing.response.preprocessedLocation \in DOMAIN blobs
        /\ ing.response.reviewId \in DOMAIN reviews

\* C9 witness: a call has returned success
C9_Witness ==
    IngReturned /\ ing.response.statusCode = 200

\* C10 as claimed: two ingest calls on the identical raw review derive the same
\* identifier, whatever the raw review carries.
C10_SameIdForSamePayload ==
    \A x, y \in derived : x.review = y.review => x.review_id = y.review_id

\* the raw review fixes the identifier: it carries one, or a unixReviewTime
Dated(review) ==
    "reviewId" \in DOMAIN review \/ "unixReviewTime" \in DOMAIN review

\* What does hold of C10: two ingest calls on the identical raw review derive the
\* same identifier when the raw review carries a reviewId or a unixReviewTime.
C10_SameIdWhenDated ==
    \A x, y \in derived :
        (x.review = y.review /\ Dated(x.review)) =>
            /\ x.review_id = y.review_id
            /\ ProcessedKey(x.review, x.review_id) = ProcessedKey(y.review, y.review_id)

-----------------------------------------------------------------------------
(* Batches *)

\* the instance is at an event of its batch that is no INSERT
PAtOther(w) ==
    /\ pw[w].pc = "loop" /\ pw[w].i <= Len(pw[w].batch)
    /\ PEvent(w).eventName # "INSERT"
SAtOther(w) ==
    /\ sw[w].pc = "loop" /\ sw[w].i <= Len(sw[w].batch)
    /\ SEvent(w).eventName # "INSERT"

\* C11: the step a stream stage takes at an event that is no INSERT (MODIFY,
\* REMOVE) leaves the buckets, the reviews table and the customers table as they
\* are and moves the stage to the next event of the same batch.
C11_NonInsertNoEffect ==
    [][/\ \A w \in PWorkers :
            (PAtOther(w) /\ pw'[w] # pw[w]) =>
                /\ UNCHANGED <<raw, blobs, reviews, customers>>
                /\ pw'[w].pc = "loop" /\ pw'[w].batch = pw[w].batch
                /\ pw'[w].i = pw[w].i + 1
       /\ \A w \in SWorkers :
            (SAtOther(w) /\ sw'[w] # sw[w]) =>
                /\ UNCHANGED <<raw, blobs, reviews, customers>>
                /\ sw'[w].pc = "loop" /\ sw'[w].batch = sw[w].batch
                /\ sw'[w].i = sw[w].i + 1]_vars

\* C11 witness: both stages have passed over an event that is no INSERT, of a
\* review whose record exists, and stand at an INSERT event after it
C11_Witness ==
    /\ pw["p1"].pc = "idle" /\ pw["p1"].statusCode = 200
    /\ sw["s1"].pc = "loop" /\ sw["s1"].i = 2 /\ Len(sw["s1"].batch) = 2
    /\ sw["s1"].batch[1].eventName = "REMOVE"
    /\ sw["s1"].batch[1].reviewId \in DOMAIN reviews
    /\ sw["s1"].batch[2].eventName = "INSERT"
    /\ customers # EmptyTable

\* C12: a ProfanityStage invocation, once it has a batch, ends only when it has
\* gone past the last event: every step keeps the batch and stays at the event or
\* goes on to the next one, whatever fails.
C12_ProfanityBatchGoesOn ==
    [][\A w \in PWorkers :
          (pw[w].pc # "idle" /\ pw'[w] # pw[w]) =>
              \/ /\ pw'[w].pc # "idle"
                 /\ pw'[w].batch = pw[w].batch
                 /\ pw'[w].i \in {pw[w].i, pw[w].i + 1}
              \/ /\ pw'[w].pc = "idle" /\ pw'[w].statusCode = 200
                 /\ pw[w].i > Len(pw[w].batch)]_vars

\* C12 witness: the first INSERT of a batch failed (it was delivered once and not
\* handled to the end) and the second, of another review, was handled to the end
C12_Witness ==
    LET l == pw["p1"]
    IN  /\ l.pc = "loop" /\ l.i = 3 /\ Len(l.batch) = 2
        /\ OnlyInserts(l.batch)
        /\ l.batch[1].reviewId # l.batch[2].reviewId
        /\ feed[l.batch[1].reviewId].pdeliv = 1
        /\ feed[l.batch[1].reviewId].pdone = 0
        /\ feed[l.batch[2].reviewId].pdone = 1

\* C13: a SentimentStage invocation ends only when no INSERT event of its batch is
\* left unhandled, whatever fails.
C13_SentimentBatchGoesOn ==
    [][\A w \in SWorkers :
          (sw[w].pc # "idle" /\ sw'[w].pc = "idle") =>
              \A j \in (sw[w].i + 1)..Len(sw[w].batch) :
                  sw[w].batch[j].eventName # "INSERT"]_vars

-----------------------------------------------------------------------------
(* The two stream stages on one record *)

\* the four attributes the stream stages write, and lastUpdated
ProfanityAttrs == {"hasProfanity", "profanityCheckStatus"}
SentimentAttrs == {"sentiment", "sentimentAnalysisStatus"}

\* the label of review r, from its blob and its rating
Label(r) ==
    LET img == feed[r].NewImage
        data == blobs[img.preprocessedLocation[3]]
    IN  analyze_sentiment(data.preprocessedSummary, data.preprocessedReviewText,
                          Overall(img))

\* C14: whatever the order of the two stages' steps on a record, the record holds
\* the result of each stage that has handled it, and every ingest attribute as it
\* was inserted: once both have handled it, its content (but for the time in
\* lastUpdated) is the same in every interleaving.
C14_StagesCommute ==
    \A r \in DOMAIN feed :
        LET rec == GetItem(reviews, r)
            img == feed[r].NewImage
        IN  /\ feed[r].pdone >= 1 =>
                  /\ rec.profanityCheckStatus = "completed"
                  /\ rec.hasProfanity = Bool(Flagged(r))
            /\ feed[r].sdone >= 1 =>
                  /\ rec.sentimentAnalysisStatus = "processed"
                  /\ rec.sentiment = Label(r)
            /\ DOMAIN rec \subseteq DOMAIN img \cup {"lastUpdated"}
            /\ \A a \in DOMAIN img \ (ProfanityAttrs \cup SentimentAttrs) :
                  rec[a] = img[a]

\* C14 witness: both stages have handled one record, and the SentimentStage has
\* handled another record before the ProfanityStage was given it
C14_Witness ==
    \E r, q \in DOMAIN feed :
        /\ feed[r].pdone >= 1 /\ feed[r].sdone >= 1
        /\ feed[q].sdone >= 1 /\ feed[q].pdeliv = 0

\* C15: a SentimentStage step leaves the buckets and the customers table as they
\* are, and leaves as it is every review record the stage has already written its
\* result to: handling an INSERT event again changes nothing.
C15_SentimentIdempotent ==
    [][sw' # sw =>
          /\ UNCHANGED <<raw, blobs, customers>>
          /\ \A r \in DOMAIN feed :
                feed[r].sdone >= 1 => GetItem(reviews, r)' = GetItem(reviews, r)]_vars

\* C15 witness: the SentimentStage has written the result of one INSERT event
\* twice
C15_Witness ==
    \E r \in DOMAIN feed : feed[r].sdone = 2 /\ sw["s1"].pc = "loop"

\* the identifiers of the reviews of PipeReviews
ReviewIds == {generate_review_id(r, 1) : r \in PipeReviews}

\* both stages' results are on the record
Processed(r) ==
    /\ r \in DOMAIN reviews
    /\ reviews[r].profanityCheckStatus = "completed"
    /\ reviews[r].hasProfanity # "None"
    /\ reviews[r].sentimentAnalysisStatus = "processed"
    /\ reviews[r].sentiment # "None"

C18_StageFrame ==
    [][/\ pw' # pw =>
            \A r \in DOMAIN reviews :
                /\ r \in DOMAIN reviews'
                /\ \A a \in SentimentAttrs :
                      Get(reviews[r], a, "absent")' = Get(reviews[r], a, "absent")
       /\ sw' # sw =>
            /\ customers' = customers
            /\ \A r \in DOMAIN reviews :
                  /\ r \in DOMAIN reviews'
                  /\ \A a \in ProfanityAttrs :
                        Get(reviews[r], a, "absent")' = Get(reviews[r], a, "absent")]_vars

\* C18 witness: the SentimentStage is about to write to the record of a review
\* the ProfanityStage has completed, whose author is banned
C18_Witness ==
    /\ sw["s1"].pc = "update"
    /\ ProfanityCompleted(SEvent("s1").reviewId)
    /\ IsBanned(SImage("s1").userId)

-----------------------------------------------------------------------------
(* The sentiment policy *)

\* C16: the label of a compound score c (in hundredths) and a rating r is positive
\* when c >= 0.5 or (c > 0 and r >= 4); otherwise negative when c <= -0.5 or
\* (c < 0 and r <= 2); otherwise neutral. So 0.5 is positive, 0.1 with rating 5 is
\* positive, -0.1 with rating 3 is neutral and 0 is neutral with every rating.
C16_SentimentPolicy ==
    \A w \in SWorkers :
        sw[w].pc = "scored" =>
            LET c == sw[w].compound
                r == sw[w].overall
                label == sw[w].sentiment
                positive == c >= 50 \/ (c > 0 /\ r >= 4)
                negative == ~positive /\ (c <= -50 \/ (c < 0 /\ r <= 2))
            IN  /\ label \in {"positive", "negative", "neutral"}
                /\ label = "positive" <=> positive
                /\ label = "negative" <=> negative
                /\ c = 50 => label = "positive"
                /\ (c = 10 /\ r = 5) => label = "positive"
                /\ (c = -10 /\ r = 3) => label = "neutral"
                /\ c = 0 => label = "neutral"

\* C16 witness: a compound score of exactly 0.5 with a rating of 1 was classified
C16_Witness ==
    \E w \in SWorkers :
        /\ sw[w].pc = "scored" /\ sw[w].compound = 50 /\ sw[w].overall = 1
        /\ sw[w].sentiment = "positive"

-----------------------------------------------------------------------------
(* The customer's counters *)

TotalReviews(u) == Get(Customer(u), "totalReviews", 0)

\* C19: no step lowers a customer's violationCount or totalReviews.
C19_CountersNeverDecrease ==
    [][\A u \in Users :
          /\ ViolationCount(u)' >= ViolationCount(u)
          /\ TotalReviews(u)' >= TotalReviews(u)]_vars

\* the flagged reviews of u whose record says so: completed, hasProfanity true
MarkedFlagged(u) ==
    {r \in DOMAIN reviews :
        /\ reviews[r].userId = u
        /\ ProfanityCompleted(r)
        /\ reviews[r].hasProfanity = Bool(TRUE)}

\* C20: when no ProfanityStage invocation is running, every review marked
\* completed and flagged is counted in its author's violationCount and
\* totalReviews.
C20_NoPartialCommit ==
    PIdleAll =>
        \A u \in Users :
            /\ Cardinality(MarkedFlagged(u)) <= ViolationCount(u)
            /\ Cardinality(MarkedFlagged(u)) <= TotalReviews(u)

-----------------------------------------------------------------------------
(* The customer's record, write by write *)

\* the instance completes its customer write in this step
PWrites(w) == pw[w].pc = "write" /\ pw'[w].pc # "write"

C22_CreateOnlyWhenAbsent ==
    [][\A w \in PWorkers :
          (PWrites(w) /\ pw[w].item = NoItem) =>
              PImage(w).userId \notin DOMAIN customers]_vars

\* C23: the step that gives a customer a record where there was none leaves a
\* record with totalReviews 1, violationCount 1 for a flagged review and 0
\* otherwise, isBanned false, no banDate, and firstViolationDate and
\* lastViolationDate exactly for a flagged review.
C23_FirstReview ==
    [][\A w \in PWorkers :
          (PWrites(w) /\ PImage(w).userId \notin DOMAIN customers) =>
              LET u == PImage(w).userId
                  flagged == Flagged(PEvent(w).reviewId)
                  new == GetItem(customers', u)
              IN  /\ u \in DOMAIN customers'
                  /\ new.totalReviews = 1
                  /\ new.violationCount = IF flagged THEN 1 ELSE 0
                  /\ new.isBanned = FALSE
                  /\ "banDate" \notin DOMAIN new
                  /\ "firstViolationDate" \in DOMAIN new <=> flagged
                  /\ "lastViolationDate" \in DOMAIN new <=> flagged]_vars

\* C23 witness: the first review handled for a customer was not flagged
C23_Witness ==
    \E u \in Users :
        /\ u \in DOMAIN customers /\ PIdleAll
        /\ Customer(u).totalReviews = 1 /\ Customer(u).violationCount = 0

\* C24: handling reviews one after the other, the step that writes the record of
\* a customer who has one adds 1 to totalReviews; for a flagged review it adds 1
\* to violationCount, sets lastViolationDate to the invocation's time and sets
\* firstViolationDate only when there was none; for another review it leaves
\* violationCount and both violation dates as they are.
C24_KnownCustomer ==
    [][\A w \in PWorkers :
          (PWrites(w) /\ PImage(w).userId \in DOMAIN customers) =>
              LET u == PImage(w).userId
                  flagged == Flagged(PEvent(w).reviewId)
                  old == Customer(u)
                  new == GetItem(customers', u)
                  dates == {"firstViolationDate", "lastViolationDate"}
              IN  /\ new.totalReviews = old.totalReviews + 1
                  /\ flagged =>
                        /\ new.violationCount = old.violationCount + 1
                        /\ new.lastViolationDate = isoformat(pw[w].current_time)
                        /\ new.firstViolationDate =
                              Get(old, "firstViolationDate", isoformat(pw[w].current_time))
                  /\ ~flagged =>
                        /\ new.violationCount = old.violationCount
                        /\ DOMAIN new \cap dates = DOMAIN old \cap dates
                        /\ \A a \in DOMAIN old \cap dates : new[a] = old[a]]_vars

\* C24 witness: a customer's second violation was stamped later than the first,
\* and a review that was not flagged was handled too
C24_Witness ==
    \E u \in Users :
        /\ u \in DOMAIN customers /\ PIdleAll
        /\ Customer(u).violationCount = 2 /\ Customer(u).totalReviews = 3
        /\ Customer(u).firstViolationDate # Customer(u).lastViolationDate

-----------------------------------------------------------------------------
(* The rating of a record *)

\* the image carries no rating, or one that is no number
Unrated(img) ==
    "overallRating" \notin DOMAIN img \/ float(img.overallRating) < 0

\* the compound score of the blob of review r
BlobCompound(r) ==
    LET data == blobs[feed[r].NewImage.preprocessedLocation[3]]
    IN  compound(<<data.preprocessedSummary, data.preprocessedReviewText>>)

\* C25: no SentimentStage invocation fails on a record whose rating is missing or
\* is no number; the label written for such a record is the policy's label for a
\* rating of 3, and the record is marked processed.
C25_RatingFallback ==
    /\ \A w \in SWorkers : ~sw[w].raised
    /\ \A r \in DOMAIN feed :
          (feed[r].sdone >= 1 /\ Unrated(feed[r].NewImage)) =>
              /\ reviews[r].sentimentAnalysisStatus = "processed"
              /\ reviews[r].sentiment = Classify(BlobCompound(r), 3)

\* C25 witness: a record whose rating is no number and whose text scores below 0
\* was labelled neutral, and one without a rating whose text scores above 0 too
C25_Witness ==
    \E r, q \in DOMAIN feed :
        /\ feed[r].sdone >= 1 /\ Get(feed[r].NewImage, "overallRating", "") = "five"
        /\ BlobCompound(r) < 0 /\ reviews[r].sentiment = "neutral"
        /\ feed[q].sdone >= 1 /\ "overallRating" \notin DOMAIN feed[q].NewImage
        /\ BlobCompound(q) > 0 /\ reviews[q].sentiment = "neutral"

-----------------------------------------------------------------------------
(* The record an ingest inserts *)

\* C26: the record an ingest call puts in the reviews table has both statuses
\* pending, hasProfanity and sentiment null, and the raw review's reviewerID as
\* userId, its asin as productId and its rating as overallRating.
C26_InitialRecord ==
    [][ing'.recWrites > ing.recWrites =>
          LET rec == GetItem(reviews', ing.review_id)
          IN  /\ ing'.response.statusCode = 200
              /\ rec.profanityCheckStatus = "pending"
              /\ rec.sentimentAnalysisStatus = "pending"
              /\ rec.hasProfanity = "None"
              /\ rec.sentiment = "None"
              /\ rec.userId = ing.review.reviewerID
              /\ rec.productId = ing.review.asin
              /\ float(rec.overallRating) = float(ing.review.overall)
              /\ float(rec.overallRating) >= 0]_vars

\* C26 witness: the record of a review of u2 with rating 1 was inserted after
\* another record
C26_Witness ==
    /\ IngReturned /\ ing.response.statusCode = 200
    /\ ing.review.reviewerID = "u2" /\ ing.review.overall = "1"
    /\ Cardinality(DOMAIN reviews) = 2

-----------------------------------------------------------------------------
(* Configuration and acknowledgement *)

\* C27: a ProfanityStage invocation that cannot read its configuration writes to
\* no review record, no customer record and no blob.
C27_NoConfigNoWrite ==
    [][pw' # pw => UNCHANGED <<raw, blobs, reviews, customers>>]_vars

\* C28: a SentimentStage invocation that has taken its batch ends, whatever fails
\* at a record, with the acknowledgement (statusCode 200) and not by raising.
C28_SentimentAcknowledges ==
    [][\A w \in SWorkers :
          (sw[w].pc # "idle" /\ sw'[w].pc = "idle") =>
              sw'[w].statusCode = 200 /\ ~sw'[w].raised]_vars

-----------------------------------------------------------------------------
(* The language data *)

\* C29: the flag nltk_data_loaded is set only when every package has been
\* installed: a load in which a download failed does not set it.
C29_LoadedOnlyAfterSuccess ==
    ing.nltk_data_loaded => ing.installed = {Packages[i] : i \in 1..Len(Packages)}

-----------------------------------------------------------------------------
(* The two counters together *)

\* C30: every customer record has violationCount <= totalReviews.
C30_ViolationsWithinTotal ==
    \A u \in DOMAIN customers :
        Get(customers[u], "violationCount", 0) <= Get(customers[u], "totalReviews", 0)


-----------------------------------------------------------------------------
(* The ban and its date *)

\* C31: in every reachable state every customer record has a banDate exactly
\* when its isBanned is true: no write sets or removes one of the two alone.
C31_BanDateIffBanned ==
    \A u \in DOMAIN customers :
        ("banDate" \in DOMAIN customers[u]) <=> Get(customers[u], "isBanned", FALSE)

\* a customer has been banned by the ban write, and two instances have handled
\* reviews of that customer
C31_Witness ==
    \E u \in DOMAIN customers :
        /\ IsBanned(u) /\ HasBanDate(u)
        /\ Cardinality({r \in DOMAIN feed : feed[r].pdone >= 1}) >= 2


\* C32: with the threshold fixed (and at least 1), in every reachable state,
\* concurrent instances included, a customer whose isBanned is true has a stored
\* violationCount of at least the threshold.
C32_BannedAtThreshold ==
    \A u \in DOMAIN customers :
        Get(customers[u], "isBanned", FALSE) =>
            Get(customers[u], "violationCount", 0) >= threshold

\* the part of C32 about a customer without violations: such a customer is
\* not banned
C32_NoBanWithoutViolation ==
    \A u \in DOMAIN customers :
        Get(customers[u], "violationCount", 0) = 0 =>
            ~Get(customers[u], "isBanned", FALSE)


-----------------------------------------------------------------------------
(* Blob before record *)

\* the part of C33 about the stores: every review record's preprocessedLocation
\* is the name of a blob the processed bucket holds
C33_RecordNamesBlob ==
    \A r \in DOMAIN reviews :
        /\ reviews[r].preprocessedLocation[2] = "processed"
        /\ reviews[r].preprocessedLocation[3] \in DOMAIN blobs

\* C33: the preprocessed blob is written before the review record is inserted:
\* in every reachable state every review record's preprocessedLocation names a
\* blob that exists, and no SentimentStage invocation, with nothing failing on
\* its side, ends by raising because it does not find the blob.
C33_BlobBeforeRecord ==
    /\ C33_RecordNamesBlob
    /\ \A w \in SWorkers : ~sw[w].raised


-----------------------------------------------------------------------------
(* Ban catch-up *)

\* the instance is at a record whose user had, before this record was counted,
\* a stored violationCount at or above the threshold and no ban: an earlier
\* invocation stored the count and did not get to write the ban
Behind(w) ==
    LET u == PImage(w).userId
        counted == IF pw[w].pc = "ban" /\ pw[w].has_profanity THEN 1 ELSE 0
    IN  /\ pw[w].pc \in {"write", "ban"}
        /\ u \in DOMAIN customers
        /\ ~IsBanned(u)
        /\ ViolationCount(u) - counted >= threshold

\* the step ends the handling of the record without an exception
Completes(w) ==
    /\ pw[w].pc \in {"write", "ban"}
    /\ feed'[PEvent(w).reviewId].pdone > feed[PEvent(w).reviewId].pdone

-----------------------------------------------------------------------------
(* A failed ingest *)

\* C35: an ingest call that returns a failure response (statusCode 500),
\* whatever the cause, has inserted or changed no review record and emitted no
\* notification, in the step that returns and in the steps of the call before
\* it; it has written at most one blob.
C35_FailureInsertsNothing ==
    [][(ing' # ing /\ ing'.pc = "idle" /\ ing'.response.statusCode = 500) =>
          /\ UNCHANGED <<reviews, feed>>
          /\ ing'.recWrites = 0
          /\ ing'.blobWrites <= 1]_vars

\* a call failed at the record insert and left its blob behind, with no record
\* of that identifier
C35_Witness ==
    /\ IngReturned /\ ing.response.statusCode = 500
    /\ ing.fault = "put_item"
    /\ ing.blobWrites = 1
    /\ ProcessedKey(ing.review, ing.review_id) \in DOMAIN blobs
    /\ ing.review_id \notin DOMAIN reviews


=============================================================================
